---- MODULE Spec2Model ----
(***************************************************************************)
(* A model of the 64-bit binary radix trie Radix64 of package bitradix     *)
(* (src/radix64.go) and of the FIFO queue used by its traversal            *)
(* (src/unnamed/part_000).                                                 *)
(*                                                                         *)
(* Nodes live in a heap.  The address of a node is the path of child       *)
(* indices under which it was allocated (the root is the empty path): the  *)
(* code never moves a node to another slot, so this names every pointer    *)
(* the program can hold.  The fields of a node are those of the Go struct, *)
(* the parent pointer included.  Integer widths are scaled down: a key has *)
(* KeyBits bits instead of 64, and the constant bitSize32 is scaled with   *)
(* it.                                                                     *)
(***************************************************************************)
EXTENDS Integers, Sequences, FiniteSets, TLC

\* Width of the key type (uint64 in the source), scaled down.
KeyBits == 4

\* The constant the 64-bit trie starts its descent from and computes its
\* masks with (declared with the 32-bit trie), scaled down with KeyBits.
bitSize32 == 3

\* Largest number of calls in one behaviour.
MaxOps == 4

\* Largest number of calls in one behaviour in which calls are also made on
\* nodes other than the root.
MaxHandleOps == 3

\* Largest number of calls in one behaviour that is followed to the end of
\* its traversals.
MaxWalkOps == 3

RECURSIVE Pow2(_)
Pow2(k) == IF k <= 0 THEN 1 ELSE 2 * Pow2(k - 1)

\* All ones in the key width.
mask64 == Pow2(KeyBits) - 1

\* The keys the calls are made with: zero and every key with one bit set, so
\* that for every bit of the key type two keys differ in that bit alone.
Keys == {0} \cup {Pow2(i) : i \in 0 .. KeyBits - 1}

\* The bit counts the calls are made with.
BitCounts == 1 .. KeyBits

\* The zero value of the value type.
Zero == 0

\* The nil pointer; no path contains a 2.
Nil == <<2>>
Root == <<>>

VARIABLES heap, op, nops, walk

vars == <<heap, op, nops, walk>>

----------------------------------------------------------------------------
\* Machine arithmetic.

\* x << s on the key type.
Shl(x, s) == IF s >= KeyBits THEN 0 ELSE (x * Pow2(s)) % Pow2(KeyBits)

\* x >> s on the key type.
Shr(x, s) == IF s >= KeyBits THEN 0 ELSE x \div Pow2(s)

RECURSIVE BitAnd(_, _)
BitAnd(a, b) ==
  IF a = 0 \/ b = 0 THEN 0
  ELSE (a % 2) * (b % 2) + 2 * BitAnd(a \div 2, b \div 2)

\* uint(k): a negative int wraps around to a value above every shift width.
Uint(k) == IF k < 0 THEN Pow2(KeyBits) + k ELSE k

\* bitSize32 - uint(bits), in unsigned arithmetic.
ShiftOf(bits) == Uint(bitSize32 - bits)

\* uint64(mask64 << (bitSize32 - uint(bits)))
MaskOf(bits) == Shl(mask64, ShiftOf(bits))

bitK64(n, k) == Shr(BitAnd(n, Shl(1, Uint(k))), Uint(k))

----------------------------------------------------------------------------
\* Nodes.

NoBranch == [k \in {0, 1} |-> Nil]

Radix64(parent) ==
  [branch |-> NoBranch, parent |-> parent, key |-> 0, bits |-> 0, Value |-> Zero]

\* The root with its two children, whose parent field is nil.
New64 ==
  (Root :> [Radix64(Nil) EXCEPT !.branch = [k \in {0, 1} |-> <<k>>]])
  @@ (<<0>> :> Radix64(Nil))
  @@ (<<1>> :> Radix64(Nil))

Key(h, r) == h[r].key

Bits(h, r) == h[r].bits

Leaf(h, r) == h[r].branch[0] = Nil /\ h[r].branch[1] = Nil

\* r.branch[k] = r.new()
new(h, r, k) ==
  LET c == Append(r, k)
  IN  (c :> Radix64(r)) @@ [h EXCEPT ![r].branch[k] = c]

set(h, r, key, bits, value) ==
  [h EXCEPT ![r].key = key, ![r].bits = bits, ![r].Value = value]

clear(h, r) ==
  [h EXCEPT ![r].key = 0, ![r].bits = 0, ![r].Value = Zero]

----------------------------------------------------------------------------
\* insert: the result is the heap, the returned node and whether the call
\* panicked with "bit index smaller than zero" (the heap is then the heap as
\* the panic left it).

Ok(h, r) == [h |-> h, ret |-> r, panic |-> FALSE]

Panic(h) == [h |-> h, ret |-> Nil, panic |-> TRUE]

\* A caller that hands on what the recursive call returned.
ReturningChild(res, r) == res

\* The caller returns r whatever the recursive call returned; a panic of the
\* recursive call propagates.
Returning(res, r) == [res EXCEPT !.ret = IF res.panic THEN Nil ELSE r]

\* if r.branch[k] == nil { r.branch[k] = r.new() }
Ensure(h, r, k) == IF h[r].branch[k] = Nil THEN new(h, r, k) ELSE h

RECURSIVE insert(_, _, _, _, _, _)
insert(h, r, n, bits, v, bit) ==
  IF ~Leaf(h, r)
  THEN \* Non-leaf node, one or two branches, possibly a key
    IF bit < 0 THEN Panic(h)
    ELSE
      LET bnew == bitK64(n, bit)
      IN  IF h[r].bits = 0 /\ bits = bitSize32 - bit
          THEN Ok(set(h, r, n, bits, v), r)
          ELSE IF h[r].bits > 0 /\ bits = bitSize32 - bit /\ h[r].bits > bits
          THEN LET bcur == bitK64(h[r].key, bit)
                   b1 == h[r].bits
                   n1 == h[r].key
                   v1 == h[r].Value
                   h1 == Ensure(set(h, r, n, bits, v), r, bcur)
               IN  Returning(insert(h1, h1[r].branch[bcur], n1, b1, v1, bit - 1), r)
          ELSE LET h1 == Ensure(h, r, bnew)
               IN  insert(h1, h1[r].branch[bnew], n, bits, v, bit - 1)
  ELSE \* External node, (optional) key, no branches
    IF h[r].bits = 0 \/ h[r].key = n
    THEN Ok(set(h, r, n, bits, v), r)
    ELSE IF bit < 0 THEN Panic(h)
    ELSE
      LET bcur == bitK64(h[r].key, bit)
          bnew == bitK64(n, bit)
      IN  IF bcur = bnew
          THEN
            LET h1 == new(h, r, bcur)
                c  == h1[r].branch[bnew]
            IN  IF h[r].bits > 0 /\ (bits = bitSize32 - bit \/ bits < h[r].bits)
                THEN Returning(
                       insert(set(h1, r, n, bits, v), c,
                              h[r].key, h[r].bits, h[r].Value, bit - 1), r)
                ELSE IF h[r].bits > 0 /\ bits >= h[r].bits
                THEN insert(h1, c, n, bits, v, bit - 1)
                ELSE insert(clear(set(h1, c, h[r].key, h[r].bits, h[r].Value), r),
                            c, n, bits, v, bit - 1)
          ELSE
            LET h1 == new(h, r, bcur)
                h2 == clear(set(h1, h1[r].branch[bcur],
                                h[r].key, h[r].bits, h[r].Value), r)
                h3 == new(h2, r, bnew)
            IN  insert(h3, h3[r].branch[bnew], n, bits, v, bit - 1)

----------------------------------------------------------------------------
\* remove and prune.

\* The nodes the root reaches through branch pointers.
RECURSIVE Below(_, _)
Below(h, r) ==
  IF r = Nil THEN {}
  ELSE {r} \cup Below(h, h[r].branch[0]) \cup Below(h, h[r].branch[1])

Reachable(h) == Below(h, Root)

\* Nodes no pointer of the tree leads to are garbage: the collector frees
\* them.
Collect(h) == [r \in Reachable(h) |-> h[r]]

\* prune(false) on r, which may be nil.
RECURSIVE pruneUp(_, _)
pruneUp(h, r) ==
  IF r = Nil THEN h
  ELSE IF h[r].bits # 0 THEN h
  ELSE
    LET b0 == h[r].branch[0]
        b1 == h[r].branch[1]
        absorb(g, b) ==
          [set(g, r, g[b].key, g[b].bits, g[b].Value)
             EXCEPT ![r].branch = g[b].branch]
    IN  IF b0 # Nil /\ b1 # Nil THEN h
        ELSE IF b0 # Nil /\ ~Leaf(h, b0) THEN h
        ELSE IF b1 # Nil /\ ~Leaf(h, b1) THEN h
        ELSE
          LET h1 == IF b0 # Nil THEN absorb(h, b0) ELSE h
              h2 == IF b1 # Nil THEN absorb(h1, b1) ELSE h1
          IN  pruneUp(h2, h2[r].parent)

\* prune(b)
prune(h, r, b) ==
  IF b
  THEN
    IF h[r].parent = Nil THEN clear(h, r)
    ELSE
      LET p  == h[r].parent
          h1 == IF h[p].branch[0] = r THEN [h EXCEPT ![p].branch[0] = Nil] ELSE h
          h2 == IF h1[p].branch[1] = r THEN [h1 EXCEPT ![p].branch[1] = Nil] ELSE h1
      IN  pruneUp(h2, p)
  ELSE pruneUp(h, r)

\* The copy remove returns.
Copy(h, r) ==
  [branch |-> NoBranch, parent |-> Nil,
   key |-> h[r].key, bits |-> h[r].bits, Value |-> h[r].Value]

\* What stands for the copy when remove returns nil.
NoCopy == Radix64(Nil)

\* The result is the heap and the returned copy (NoCopy for nil).
RECURSIVE remove(_, _, _, _, _)
remove(h, r, n, bits, bit) ==
  IF h[r].bits > 0 /\ h[r].bits = bits
     /\ BitAnd(h[r].key, MaskOf(h[r].bits)) = BitAnd(n, MaskOf(h[r].bits))
  THEN [h |-> prune(h, r, TRUE), ret |-> Copy(h, r)]
  ELSE
    LET k == bitK64(n, bit)
    IN  IF Leaf(h, r) \/ h[r].branch[k] = Nil
        THEN [h |-> h, ret |-> NoCopy]
        ELSE remove(h, h[r].branch[k], n, bits, bit - 1)

----------------------------------------------------------------------------
\* find: the result is the node found, or Nil.

RECURSIVE find(_, _, _, _, _, _)
find(h, r, n, bits, bit, last) ==
  LET mask == MaskOf(h[r].bits)
      hit  == BitAnd(h[r].key, mask) = BitAnd(n, mask)
  IN  IF ~Leaf(h, r)
      THEN
        LET last1 == IF h[r].bits > 0 /\ hit
                     THEN IF last = Nil THEN r
                          ELSE IF h[r].bits >= h[last].bits THEN r ELSE last
                     ELSE last
            k == bitK64(n, bit)
        IN  IF h[r].bits = bits /\ hit THEN r
            ELSE IF h[r].branch[k] = Nil THEN last1
            ELSE find(h, h[r].branch[k], n, bits, bit - 1, last1)
      ELSE IF hit THEN r ELSE last

----------------------------------------------------------------------------
\* The queue of the traversal.

node64(r, branch) == [Radix64 |-> r, branch |-> branch]

NoNode == [Radix64 |-> Nil, branch |-> -1]

Push(q, n) == Append(q, n)

\* A Pop that takes the node pushed last.
PopLast(q) ==
  LET lq == Len(q)
  IN  IF lq = 0 THEN [q |-> q, n |-> NoNode]
      ELSE [q |-> SubSeq(q, 1, lq - 1), n |-> q[lq]]

\* The result is the queue and the node popped (NoNode for nil).
Pop(q) ==
  LET lq == Len(q)
  IN  IF lq = 0 THEN [q |-> q, n |-> NoNode]
      ELSE IF lq = 1 THEN [q |-> SubSeq(q, 1, 0), n |-> q[1]]
      ELSE [q |-> SubSeq(q, 2, lq), n |-> q[1]]

\* The children of x pushed in the order of the child array.
RECURSIVE PushBranches(_, _, _, _)
PushBranches(q, h, r, i) ==
  IF i > 1 THEN q
  ELSE PushBranches(
         IF h[r].branch[i] # Nil THEN Push(q, node64(h[r].branch[i], i)) ELSE q,
         h, r, i + 1)

Idle == [active |-> FALSE, q |-> <<>>, x |-> NoNode, visits |-> <<>>]

----------------------------------------------------------------------------
\* The calls.

NotRoot == "bitradix: not the root node"
BadBit == "bitradix: bit index smaller than zero"

\* The address of the copy Remove returns, a node outside the tree.
Detached == <<3>>

\* The last call: its receiver and arguments, the pointer it returned (ret),
\* the node a returned copy points to (r1) and how it ended.
Call(kind, recv, n, bits, v, ret, r1, status) ==
  [kind |-> kind, recv |-> recv, n |-> n, bits |-> bits, v |-> v,
   ret |-> ret, r1 |-> r1, status |-> status]

Ready == op.status = "ok" /\ ~walk.active /\ nops < MaxOps

\* The value of a call: values are opaque to the trie, every Insert brings
\* one of its own.
Fresh == nops + 1

Init ==
  /\ heap = New64
  /\ op = Call("New64", Root, 0, 0, Zero, Root, NoCopy, "ok")
  /\ nops = 0
  /\ walk = Idle

\* r.Insert(n, bits, v)
InsertOn(r, n, bits, v) ==
  /\ Ready
  /\ nops' = nops + 1
  /\ walk' = walk
  /\ IF heap[r].parent # Nil
     THEN /\ heap' = heap
          /\ op' = Call("Insert", r, n, bits, v, Nil, NoCopy, NotRoot)
     ELSE LET res == insert(heap, r, n, bits, v, bitSize32 - 1)
          IN  /\ heap' = Collect(res.h)
              /\ op' = Call("Insert", r, n, bits, v, res.ret, NoCopy,
                            IF res.panic THEN BadBit ELSE "ok")

\* r.Remove(n, bits)
RemoveOn(r, n, bits) ==
  /\ Ready
  /\ nops' = nops + 1
  /\ walk' = walk
  /\ IF heap[r].parent # Nil
     THEN /\ heap' = heap
          /\ op' = Call("Remove", r, n, bits, Zero, Nil, NoCopy, NotRoot)
     ELSE LET res == remove(heap, r, n, bits, bitSize32 - 1)
          IN  /\ heap' = Collect(res.h)
              /\ op' = Call("Remove", r, n, bits, Zero,
                            IF res.ret = NoCopy THEN Nil ELSE Detached,
                            res.ret, "ok")

\* r.Find(n, bits)
FindOn(r, n, bits) ==
  /\ Ready
  /\ nops' = nops + 1
  /\ UNCHANGED <<heap, walk>>
  /\ IF heap[r].parent # Nil
     THEN op' = Call("Find", r, n, bits, Zero, Nil, NoCopy, NotRoot)
     ELSE op' = Call("Find", r, n, bits, Zero,
                     find(heap, r, n, bits, bitSize32 - 1, Nil), NoCopy, "ok")

Insert == \E n \in Keys, bits \in BitCounts : InsertOn(Root, n, bits, Fresh)

Remove == \E n \in Keys, bits \in BitCounts : RemoveOn(Root, n, bits)

Find == \E n \in Keys, bits \in BitCounts : FindOn(Root, n, bits)

\* r.Do(f) up to the loop: the queue is seeded with the root.
Do ==
  /\ Ready
  /\ LET p == Pop(Push(<<>>, node64(Root, -1)))
     IN  walk' = [active |-> TRUE, q |-> p.q, x |-> p.n, visits |-> <<>>]
  /\ op' = Call("Do", Root, 0, 0, Zero, Nil, NoCopy, "ok")
  /\ nops' = nops + 1
  /\ heap' = heap

\* One turn of the loop: f(x), the children of x pushed, the next x popped.
DoVisit ==
  /\ walk.active
  /\ walk.x # NoNode
  /\ LET p == Pop(PushBranches(walk.q, heap, walk.x.Radix64, 0))
     IN  walk' = [walk EXCEPT !.visits = Append(@, walk.x), !.q = p.q, !.x = p.n]
  /\ UNCHANGED <<heap, op, nops>>

\* The loop ends when the queue gave nil.
DoReturn ==
  /\ walk.active
  /\ walk.x = NoNode
  /\ walk' = [walk EXCEPT !.active = FALSE]
  /\ UNCHANGED <<heap, op, nops>>

Next == Insert \/ Remove \/ Find \/ Do \/ DoVisit \/ DoReturn

Spec == Init /\ [][Next]_vars

\* The calls made on a node of the tree that is not the root.
Handles == DOMAIN heap \ {Root}

InsertAt ==
  \E r \in Handles, n \in Keys, bits \in BitCounts : InsertOn(r, n, bits, Fresh)

RemoveAt == \E r \in Handles, n \in Keys, bits \in BitCounts : RemoveOn(r, n, bits)

FindAt == \E r \in Handles, n \in Keys, bits \in BitCounts : FindOn(r, n, bits)

NextHandle ==
  \/ nops < MaxHandleOps /\ Insert
  \/ nops < MaxHandleOps /\ Remove
  \/ nops < MaxHandleOps /\ Find
  \/ nops < MaxHandleOps /\ InsertAt
  \/ nops < MaxHandleOps /\ RemoveAt
  \/ nops < MaxHandleOps /\ FindAt

SpecHandle == Init /\ [][NextHandle]_vars

\* The traversal is a loop of the one thread of the program: once started it
\* runs until the queue is empty.
NextWalk ==
  \/ nops < MaxWalkOps /\ Insert
  \/ nops < MaxWalkOps /\ Remove
  \/ nops < MaxWalkOps /\ Do
  \/ DoVisit
  \/ DoReturn

SpecWalk == Init /\ [][NextWalk]_vars /\ WF_vars(DoVisit) /\ WF_vars(DoReturn)

----------------------------------------------------------------------------
\* The vocabulary of the properties.

\* The key width W of the 64-bit trie.
W == KeyBits

AllKeys == 0 .. mask64

\* The top b bits of a key.
Prefix(k, b) == k \div Pow2(W - b)

\* r.Find(n, bits) on the root.
FindRoot(h, n, bits) == find(h, Root, n, bits, bitSize32 - 1, Nil)

\* The nodes that hold an entry.
Holders(h) == {r \in DOMAIN h : h[r].bits > 0}

\* The nodes that hold an entry for the pair (n masked to bits, bits).
HoldersOf(h, n, bits) ==
  {r \in Holders(h) : h[r].bits = bits /\ Prefix(h[r].key, bits) = Prefix(n, bits)}

\* The nodes whose entry is a prefix of the key n.
Matches(h, n) ==
  {r \in Holders(h) : Prefix(h[r].key, h[r].bits) = Prefix(n, h[r].bits)}

\* A stored entry: the masked key, the bit count and the value.
Entry(key, bits, value) == [key |-> Prefix(key, bits), bits |-> bits, Value |-> value]

Entries(h) == {Entry(h[r].key, h[r].bits, h[r].Value) : r \in Holders(h)}

\* The last step was the call op' and the call returned.
Called(kind) == nops' = nops + 1 /\ op'.kind = kind /\ op'.status = "ok"

Returned(kind) == op.kind = kind /\ op.status = "ok"

----------------------------------------------------------------------------
\* C1. Round trip: right after Insert(key, bits, value) has returned,
\* Find(key, bits) on the root returns a node whose key is the inserted key
\* on its top bits bits, whose bit count is bits and whose value is value.
RoundTrip ==
  Returned("Insert") =>
    LET f == FindRoot(heap, op.n, op.bits)
    IN  /\ f # Nil
        /\ Prefix(Key(heap, f), op.bits) = Prefix(op.n, op.bits)
        /\ Bits(heap, f) = op.bits
        /\ heap[f].Value = op.v

\* Every call so far was an Insert that added an entry, no entry was
\* overwritten, and the entries are for pairwise distinct pairs: every call
\* brought a value of its own, and all of them are stored.
OnlyDistinctInserts ==
  /\ op.status = "ok"
  /\ Cardinality(Holders(heap)) = nops
  /\ {heap[r].Value : r \in Holders(heap)} = 1 .. nops
  /\ \A a, b \in Holders(heap) : a # b => a \notin HoldersOf(heap, heap[b].key, heap[b].bits)

\* C2. Longest prefix match: on a trie built by Insert calls for pairwise
\* distinct pairs, if some stored entry is a prefix of the key then
\* Find(key, W) returns a node holding such an entry, and no stored entry
\* that is a prefix of the key has more bits.
LongestPrefixMatch ==
  OnlyDistinctInserts =>
    \A n \in AllKeys :
      Matches(heap, n) # {} =>
        LET f == FindRoot(heap, n, W)
        IN  /\ f \in Matches(heap, n)
            /\ \A m \in Matches(heap, n) : heap[f].bits >= heap[m].bits

\* C3. Not found: Find returns nil when no stored entry is a prefix of the
\* key (on the new trie: for every key), and a node it returns holds an
\* entry (its bit count is positive) that is a prefix of the key.
NotFound ==
  \A n \in AllKeys, bits \in BitCounts :
    LET f == FindRoot(heap, n, bits)
    IN  /\ Matches(heap, n) = {} => f = Nil
        /\ f # Nil => heap[f].bits > 0 /\ f \in Matches(heap, n)

\* C4. Overwrite: an Insert(key, bits, value2) on a trie that holds an entry
\* with that key and that bit count leaves exactly one entry for the pair,
\* that entry carries value2, and the tree has as many nodes as before.
Overwrite ==
  [][(Called("Insert")
      /\ \E r \in Holders(heap) : heap[r].key = op'.n /\ heap[r].bits = op'.bits)
     => /\ Cardinality(HoldersOf(heap', op'.n, op'.bits)) = 1
        /\ \A r \in HoldersOf(heap', op'.n, op'.bits) : heap'[r].Value = op'.v
        /\ Cardinality(DOMAIN heap') = Cardinality(DOMAIN heap)]_vars

\* C5. Delete then find: right after Remove(key, bits) has returned an entry,
\* Find(key, bits) returns nil or a node that does not hold an entry for the
\* pair (key masked to bits, bits).
DeleteThenFind ==
  (Returned("Remove") /\ op.ret # Nil) =>
    LET f == FindRoot(heap, op.n, op.bits)
    IN  f = Nil \/ f \notin HoldersOf(heap, op.n, op.bits)

\* C6. Remove affects only the removed entry: the entries stored after a
\* Remove that returned an entry are the entries stored before it without
\* the returned one.
RemoveOnlyRemoved ==
  [][(Called("Remove") /\ op'.ret # Nil)
     => Entries(heap')
          = Entries(heap) \ {Entry(op'.r1.key, op'.r1.bits, op'.r1.Value)}]_vars

\* C7. Remove finds what is stored: if a node holds an entry with bits bits
\* whose key agrees with key on the top bits bits, Remove(key, bits) returns
\* a copy of the key, bits and value of such an entry.
RemoveFindsStored ==
  [][(Called("Remove") /\ HoldersOf(heap, op'.n, op'.bits) # {})
     => /\ op'.ret # Nil
        /\ \E r \in HoldersOf(heap, op'.n, op'.bits) :
             /\ op'.r1.key = heap[r].key
             /\ op'.r1.bits = heap[r].bits
             /\ op'.r1.Value = heap[r].Value]_vars

\* C8. Idempotent remove: Remove(key, bits) for a pair no node holds returns
\* nil and leaves every node, link, key, bit count and value as it was.
RemoveAbsent ==
  [][(Called("Remove") /\ HoldersOf(heap, op'.n, op'.bits) = {})
     => op'.ret = Nil /\ heap' = heap]_vars

\* C9. Root only: Insert, Remove and Find called on a node of the tree other
\* than the root panic with "not the root node".
RootOnly ==
  (op.kind \in {"Insert", "Remove", "Find"} /\ op.recv # Root)
    => op.status = NotRoot

----------------------------------------------------------------------------
\* The traversal.

\* The nodes d links below the root.
RECURSIVE Level(_, _)
Level(h, d) ==
  IF d = 0 THEN {Root}
  ELSE {h[p].branch[k] : p \in Level(h, d - 1), k \in {0, 1}} \ {Nil}

Depth(h, r) == CHOOSE d \in 0 .. Cardinality(DOMAIN h) : r \in Level(h, d)

\* The child slots that hold the node c.
SlotsOf(h, c) == {s \in (DOMAIN h) \X {0, 1} : h[s[1]].branch[s[2]] = c}

\* Do has returned and nothing was called since.
WalkDone == op.kind = "Do" /\ ~walk.active

\* What the visitor was called with, in the order of the calls.
VisitsRight ==
  LET v == walk.visits
      N == Len(v)
  IN  /\ N = Cardinality(Reachable(heap))
      /\ {v[i].Radix64 : i \in 1 .. N} = Reachable(heap)
      /\ \A i, j \in 1 .. N :
           i < j => Depth(heap, v[i].Radix64) <= Depth(heap, v[j].Radix64)
      /\ \A p \in Reachable(heap) :
           (heap[p].branch[0] # Nil /\ heap[p].branch[1] # Nil) =>
             \E i, j \in 1 .. N :
               /\ i < j
               /\ v[i].Radix64 = heap[p].branch[0]
               /\ v[j].Radix64 = heap[p].branch[1]
      /\ \A i \in 1 .. N :
           IF v[i].Radix64 = Root
           THEN v[i].branch = -1
           ELSE \E p \in DOMAIN heap :
                  SlotsOf(heap, v[i].Radix64) = {<<p, v[i].branch>>}

\* C10. Walk: Do terminates, and when it has returned the visitor was called
\* exactly once for every node reachable from the root, vacant ones
\* included, no node before a node nearer the root, the 0-child of a node
\* before its 1-child, with the marker -1 for the root and otherwise the
\* index of the one child slot that holds the node.
WalkVisitsAll ==
  /\ [](WalkDone => VisitsRight)
  /\ (walk.active ~> WalkDone)

\* A traversal has returned on a tree three levels deep that has a vacant
\* node below the root and a node with two children below the root.
WalkedDeepTree ==
  /\ WalkDone
  /\ Level(heap, 2) # {}
  /\ \E r \in Reachable(heap) : r # Root /\ heap[r].bits = 0
  /\ \E r \in Reachable(heap) :
       r # Root /\ heap[r].branch[0] # Nil /\ heap[r].branch[1] # Nil

----------------------------------------------------------------------------
\* The shape of the tree.

\* The nodes strictly below r.
Under(h, r) == Below(h, r) \ {r}

\* C11. Insert returns the node of the new entry: when Insert(key, bits,
\* value) has returned, after any displacement of an entry that was in the
\* way, the node it returned is reachable from the root and its key is key,
\* its bit count is bits and its value is value.
InsertReturnsHolder ==
  Returned("Insert") =>
    /\ op.ret \in Reachable(heap)
    /\ Key(heap, op.ret) = op.n
    /\ Bits(heap, op.ret) = op.bits
    /\ heap[op.ret].Value = op.v

\* Insert has returned a node below which an older entry with more bits is
\* stored: the entry the new one displaced, or one that was there already.
InsertedAboveOlder ==
  /\ Returned("Insert")
  /\ op.ret # Nil
  /\ \E d \in Under(heap, op.ret) :
       /\ heap[d].bits > op.bits
       /\ heap[d].Value < op.v
       /\ heap[d].parent = op.ret

\* C12. No negative bit index: no Insert on the root panics with "bit index
\* smaller than zero", and no node lies deeper than one level per key bit.
NoNegativeBit ==
  /\ op.status # BadBit
  /\ \A r \in DOMAIN heap : Len(r) <= W

\* The children of r.
Children(h, r) == {h[r].branch[k] : k \in {0, 1}} \ {Nil}

\* The reachable vacant nodes other than the root that have exactly one
\* child.
VacantChain(h) ==
  {r \in Reachable(h) \ {Root} : h[r].bits = 0 /\ Cardinality(Children(h, r)) = 1}

\* C13. Compaction: when a Remove has returned, no vacant node other than
\* the root that has exactly one child is reachable from the root.
Compaction == Returned("Remove") => VacantChain(heap) = {}

\* C14. Insert preserves other entries: every entry stored before an
\* Insert(key, bits, value) whose pair (masked key, bits) is not the pair
\* inserted is stored after it, with its value.
InsertKeepsOthers ==
  [][Called("Insert")
     => \A e \in Entries(heap) :
          (e.bits # op'.bits \/ e.key # Prefix(op'.n, op'.bits))
            => e \in Entries(heap')]_vars

\* C15. Uniqueness: no two distinct reachable nodes hold entries with the
\* same bit count and the same top bits of the key.
Uniqueness ==
  \A a, b \in Holders(heap) \cap Reachable(heap) :
    (heap[a].bits = heap[b].bits
     /\ Prefix(heap[a].key, heap[a].bits) = Prefix(heap[b].key, heap[b].bits))
      => a = b

\* The child index the key k selects at depth d when the descent consumes
\* the key from its most significant bit, bit W - 1, downwards.
PathBit(k, d) == (k \div Pow2(W - 1 - d)) % 2

\* C16. Path invariant: for every reachable node that holds an entry, the
\* child indices followed from the root to the node are the leading bits of
\* its key, most significant bit first, one bit per level.
PathInvariant ==
  \A r \in Holders(heap) \cap Reachable(heap) :
    /\ Len(r) <= W
    /\ \A i \in 1 .. Len(r) : r[i] = PathBit(heap[r].key, i - 1)

\* C17. Shorter prefixes float toward the root: of two reachable nodes that
\* hold entries, one above the other, the upper one has no more bits.
ShorterAbove ==
  \A a \in Holders(heap) \cap Reachable(heap) :
    \A d \in Holders(heap) \cap Under(heap, a) : heap[a].bits <= heap[d].bits

\* C18. Parent links: the root is the only reachable node whose parent is
\* nil, and the parent of every other reachable node is the one node that
\* holds it in a child slot.
ParentLinks ==
  \A c \in Reachable(heap) :
    IF c = Root THEN heap[c].parent = Nil
    ELSE /\ heap[c].parent # Nil
         /\ \A s \in SlotsOf(heap, c) : s[1] = heap[c].parent
         /\ Cardinality({s[1] : s \in SlotsOf(heap, c)}) = 1

\* C19. Key width: two keys that differ in one of their W bits never
\* collide.  Find(key, W) does not return a node that holds, with all W
\* bits significant, another key.
NoCollision ==
  \A n \in AllKeys :
    LET f == FindRoot(heap, n, W)
    IN  (f # Nil /\ heap[f].bits = W) => heap[f].key = n

====
